---- MODULE Spec2Model ----
(***************************************************************************)
(* A model of bioimageio_chatbot/chatbot.py: the service functions chat,   *)
(* report and ping, the router respond_to_user (classification with one    *)
(* retry, dispatch, retrieval and ranking, script execution, synthesis)    *)
(* and the script runner execute_code.                                     *)
(*                                                                         *)
(* Spec follows one chat call from its first line through respond_to_user  *)
(* and execute_code to its return or to the fault it propagates.  SpecChat,*)
(* SpecBus and SpecRace have several calls in flight on the one service,   *)
(* each handler taken by its outcome: SpecChat with every kind of caller   *)
(* and configuration, SpecBus with the stream events of the event bus,     *)
(* SpecRace with callers that pass the stored transcript as chat_history.  *)
(* SpecExec has the execute_code calls of several requests running at once *)
(* on the threads of the executor; SpecOffload has a chat call on the      *)
(* event loop beside such calls and the queue of the executor.  The        *)
(* external collaborators (role.aask, the vector stores, the image         *)
(* helpers, the event bus, the file system) are nondeterministic: every    *)
(* call may return any value of its declared type or raise.                *)
(***************************************************************************)
EXTENDS Integers, Sequences, FiniteSets, TLC

(***************************************************************************)
(* Bounds of the model.                                                    *)
(***************************************************************************)
\* at most NumChannels knowledge-base channels are registered
NumChannels == 2
\* relevance scores are drawn from 1..MaxScore
MaxScore == 2
\* a script is a sequence of at most MaxScriptLen statements
MaxScriptLen == 2
\* threads of the default executor that may run execute_code
NumWorkers == 2
\* chat calls made to the service
NumCalls == 2
\* session ids the callers choose from
NumSessions == 1
\* script calls handed to the executor while all its threads are busy
MaxQueued == 1

(***************************************************************************)
(* Program constants.                                                      *)
(***************************************************************************)
\* k of the per-channel search in the "all" path
K_ALL == 2
\* k of the search of a single channel
K_SINGLE == 3
\* docs_with_score[:3]
TOP_N == 3

(***************************************************************************)
(* Values.                                                                 *)
(***************************************************************************)
None == <<"none", 0>>
Channel(i) == <<"channel", i>>
\* the keys of docs_store_dict / collection_info_dict, in dict order, when n
\* channels are registered
RegisteredChannels(n) == [i \in 1..n |-> Channel(i)]
RegisteredSet(n) == {Channel(i) : i \in 1..n}
\* the channel whose id is "bioimage.io"
BIOIMAGE_IO == Channel(1)
LEARN == <<"learn", 0>>
ALL == <<"all", 0>>
\* a channel id the classifier may produce that is no key of docs_store_dict
UNREGISTERED == <<"unregistered", 0>>

\* channel_info.id of a request (None: no channel_info)
ChannelSelections(n) == {None, LEARN} \cup RegisteredSet(n)

BaseUrl(c) == <<"base_url", c[2]>>
Format(c) == <<"format", c[2]>>

Texts == {"t1", "t2"}

\* the calls of chat()
Calls == 1..NumCalls
\* session ids passed by callers, and the secrets.token_hex(8) of call c
SessionIds == {<<"session", i>> : i \in 1..NumSessions}
Token(c) == <<"token", c>>
AllSessions == SessionIds \cup {Token(c) : c \in Calls}
\* channel='auto', and a channel name that is no key of channel_id_by_name
AUTO == <<"auto", 0>>
UNKNOWN_NAME == <<"unknown", 0>>
\* the context argument: absent, without a user, with a user whose email
\* is / is not in the authorized users file
Contexts == {"none", "anonymous", "member", "outsider"}
HasUser(ctx) == ctx \in {"member", "outsider"}
\* json.load(f)["users"] of the authorized users file
AuthorizedUsers == {"member"}
\* a chat_history entry
Entry(role, content) == [role |-> role, content |-> content]
NoFile == [exists |-> FALSE, conversations |-> <<>>]
\* authorized_emails: None, or the emails of the file
NoEmails == <<"none", {}>>
Emails(users) == <<"emails", users>>
\* the chat history of a caller who has had one exchange
PriorHistory == <<Entry("user", "t1"), Entry("assistant", "t1")>>

\* the types role.aask may be asked to produce
DirectResponse == "DirectResponse"
LearnResponse == "LearnResponse"
DocumentRetrievalInput == "DocumentRetrievalInput"
ModelZooInfoScript == "ModelZooInfoScript"
CellposeTask == "CellposeTask"

(***************************************************************************)
(* Scripts.  A script is either text that does not compile or a sequence   *)
(* of statements; a statement writes to sys.stdout (a fixed text, or a     *)
(* text computed from `resources`), writes to sys.stderr, empties the list *)
(* bound to `resources` (resources.clear()), raises an Exception (with or  *)
(* without a message) or raises SystemExit, which is a BaseException and   *)
(* no Exception.                                                           *)
(***************************************************************************)
Statements == {"print_a", "print_len", "eprint", "clear", "raise_boom", "raise_empty",
               "sys_exit"}
PrintStatements == {"print_a", "print_len"}
RaiseStatements == {"raise_boom", "raise_empty", "sys_exit"}
SeqsUpTo(S, n) == UNION {[1..m -> S] : m \in 0..n}
Scripts == [compiles : {TRUE}, body : SeqsUpTo(Statements, MaxScriptLen)]
             \cup {[compiles |-> FALSE, body |-> <<>>]}
\* the text a writing statement writes, given the value bound to `resources`
Written(stmt, resources) ==
    IF stmt = "print_a" THEN "a\n"
    ELSE IF stmt = "print_len" THEN (IF Len(resources) = 0 THEN "0\n" ELSE "1\n")
    ELSE "warning\n"
\* str(e) of the exception a raising statement raises
\* (a text is the sequence of the pieces written; "" is the empty sequence)
StrOfFault(stmt) == IF stmt = "raise_boom" THEN <<"boom">>
                    ELSE IF stmt = "raise_empty" THEN <<>>
                    ELSE IF stmt = "sys_exit" THEN <<>>
                    ELSE <<"invalid syntax">>

(***************************************************************************)
(* What the classifier (role.aask with a response type) may return.        *)
(***************************************************************************)
NoReq == [type |-> "none"]
ResultsOfType(t, n) ==
    IF t = DirectResponse THEN {[type |-> t, response |-> x] : x \in Texts}
    ELSE IF t = LearnResponse THEN {[type |-> t, response |-> x] : x \in Texts}
    ELSE IF t = DocumentRetrievalInput
        THEN {[type |-> t, channel_id |-> c] : c \in RegisteredSet(n) \cup {ALL, UNREGISTERED}}
    ELSE IF t = ModelZooInfoScript THEN {[type |-> t, script |-> s] : s \in Scripts}
    ELSE IF t = CellposeTask THEN {[type |-> t, task |-> k] : k \in {"cyto", "nuclei", "unknown"}}
    ELSE {[type |-> t, response |-> x] : x \in Texts}
ResultsOf(variants, n) == UNION {ResultsOfType(t, n) : t \in variants}
\* an awaited external call raises an Exception or is cancelled
\* (asyncio.CancelledError is a BaseException)
AwaitFaults == {"Exception", "CancelledError"}

(***************************************************************************)
(* What a vector store may return for a search with k: at most k hits, in  *)
(* the store's rank order, each with a relevance score.                    *)
(***************************************************************************)
Scores == 1..MaxScore
Hits(k) == SeqsUpTo(Scores, k)

(***************************************************************************)
(* The streams of the process and the capture buffers of execute_code.     *)
(***************************************************************************)
Workers == 1..NumWorkers
REAL_STDOUT == <<"real_stdout", 0>>
REAL_STDERR == <<"real_stderr", 0>>
StdoutBuffer(w) == <<"stdout_buffer", w>>
StderrBuffer(w) == <<"stderr_buffer", w>>
Streams == {REAL_STDOUT, REAL_STDERR}
             \cup {StdoutBuffer(w) : w \in Workers} \cup {StderrBuffer(w) : w \in Workers}

VARIABLES
    \* the number of channels of the manifest
    num_channels,
    \* the request: channel_info.id (or None) and image_data
    channel_info, image_data,
    \* respond_to_user: where the coroutine is suspended
    pc,
    \* every role.aask(inputs, <classification types>) made, in order
    aasks,
    \* the classification result
    req,
    \* the "all" loop: index of the channel being searched
    chan_idx,
    \* every asimilarity_search_with_relevance_scores call made, in order,
    \* with what it returned
    searches,
    docs_with_score,
    \* every role.aask(<input>, FinalResponse) made, in order
    synth_calls,
    \* what respond_to_user returned / the fault it propagated
    response, fault,
    \* the executor thread running this request's script (0: none)
    future,
    \* the collection load_model_info() read, and the list object built
    \* from it that is bound to `resources` in every script
    model_info, resource_items,
    \* sys.stdout, sys.stderr and the contents of every stream
    sys_stdout, sys_stderr, contents,
    \* execute_code, per executor thread
    xpc, script, ip, original_stdout, original_stderr, stdout_output,
    stderr_output, retval, pending,
    \* the calls handed to the executor while all its threads were busy,
    \* each with whether a thread has taken it since
    queue,
    \* register_chat_service: BIOIMAGEIO_LOGIN_REQUIRED and the emails of
    \* the authorized users file (None: no file)
    login_required, authorized_emails,
    \* the calls whose stream_callback is registered on the event bus
    listeners,
    \* the chatlogs-<session_id>.json files: the conversations they hold
    transcripts,
    \* the report-<session_id><token>.json file of each report call
    reports,
    \* chat(), per call: where the coroutine is suspended, its arguments
    \* and locals, the exception it raised
    cpc, text, chat_history, context, session_id, chat_response, chat_fault,
    \* json.dumps(chat_his_dict), per call
    chat_history_json,
    \* the messages the status_callback of each call was called with
    forwarded

vars == <<num_channels, channel_info, image_data, pc, aasks, req, chan_idx, searches,
          docs_with_score, synth_calls, response, fault, future,
          model_info, resource_items, sys_stdout, sys_stderr, contents, xpc, script, ip,
          original_stdout,
          original_stderr, stdout_output, stderr_output, retval, pending, queue,
          login_required, authorized_emails, listeners, transcripts, reports, cpc, text,
          chat_history, context, session_id, chat_response, chat_fault,
          chat_history_json, forwarded>>

routerVars == <<pc, aasks, req, chan_idx, searches, docs_with_score,
                synth_calls, response, fault, future>>
execVars == <<sys_stdout, sys_stderr, contents, xpc, script, ip,
              original_stdout, original_stderr, stdout_output, stderr_output,
              retval, pending, queue>>
inputVars == <<num_channels, channel_info, image_data, model_info>>
configVars == <<login_required, authorized_emails>>
chatVars == <<listeners, transcripts, reports, cpc, text, chat_history, context,
              session_id, chat_response, chat_fault, chat_history_json,
              forwarded>>

NoResult == [kind |-> "none"]
NoFault == [origin |-> "none", type |-> "none"]
NoPending == [type |-> "none", str |-> <<>>]

\* respond_to_user and execute_code before the request is handled
InitHandler ==
    /\ pc = "classify"
    /\ aasks = <<>>
    /\ req = NoReq
    /\ chan_idx = 0
    /\ searches = <<>>
    /\ docs_with_score = <<>>
    /\ synth_calls = <<>>
    /\ response = NoResult
    /\ fault = NoFault
    /\ future = 0
    /\ sys_stdout = REAL_STDOUT
    /\ sys_stderr = REAL_STDERR
    /\ contents = [s \in Streams |-> <<>>]
    /\ xpc = [w \in Workers |-> "idle"]
    /\ script = [w \in Workers |-> [compiles |-> TRUE, body |-> <<>>]]
    /\ ip = [w \in Workers |-> 0]
    /\ original_stdout = [w \in Workers |-> None]
    /\ original_stderr = [w \in Workers |-> None]
    /\ stdout_output = [w \in Workers |-> <<>>]
    /\ stderr_output = [w \in Workers |-> <<>>]
    /\ retval = [w \in Workers |-> NoResult]
    /\ pending = [w \in Workers |-> NoPending]
    /\ queue = <<>>

\* the service after register_chat_service, no call made yet
InitService ==
    /\ listeners = {}
    /\ transcripts = [s \in AllSessions |-> NoFile]
    /\ cpc = [c \in Calls |-> "idle"]
    /\ text = [c \in Calls |-> ""]
    /\ chat_history = [c \in Calls |-> <<>>]
    /\ context = [c \in Calls |-> "none"]
    /\ session_id = [c \in Calls |-> None]
    /\ chat_response = [c \in Calls |-> NoResult]
    /\ chat_fault = [c \in Calls |-> "none"]
    /\ reports = [c \in Calls |-> "none"]
    /\ chat_history_json = [c \in Calls |-> <<>>]
    /\ forwarded = [c \in Calls |-> {}]
    /\ InitHandler

\* one chat call, followed through respond_to_user and execute_code, to a
\* service that does not require login
Init ==
    /\ num_channels \in 1..NumChannels
    /\ channel_info \in ChannelSelections(num_channels)
    /\ image_data \in {"none", "valid", "malformed"}
    /\ model_info \in {<<>>, <<"model">>}
    /\ resource_items = model_info
    /\ login_required = FALSE
    /\ authorized_emails = NoEmails
    /\ InitService

(***************************************************************************)
(* respond_to_user.                                                        *)
(***************************************************************************)
\* the list `inputs` passed to the classifier
Inputs(ci) == IF ci # None
              THEN <<ci, "user_profile", "chat_history", "question">>
              ELSE <<"user_profile", "chat_history", "question">>

\* Variants with the restriction of the other named channels lost
VariantsUnrestricted(ci, img) ==
    IF ci = LEARN THEN {LearnResponse}
    ELSE IF img # "none" THEN {CellposeTask}
    ELSE {DirectResponse, DocumentRetrievalInput, ModelZooInfoScript, LearnResponse}

\* the response types offered to the classifier
Variants(ci, img) ==
    IF ci = LEARN THEN {LearnResponse}
    ELSE IF img # "none" THEN {CellposeTask}
    ELSE IF ci = None \/ ci = BIOIMAGE_IO
        THEN {DirectResponse, DocumentRetrievalInput, ModelZooInfoScript, LearnResponse}
    ELSE {DirectResponse, DocumentRetrievalInput}

\* the exception leaves respond_to_user
Raise(origin, type) ==
    /\ pc' = "raised"
    /\ fault' = [origin |-> origin, type |-> type]
    /\ response' = response

\* return <text>
Return(r) ==
    /\ pc' = "done"
    /\ response' = r
    /\ fault' = fault

\* [DocWithScore(...) for doc, score in results_with_scores]
NewDocsWithScore(c, hits) ==
    [r \in 1..Len(hits) |->
        [doc |-> <<c[2], r>>, score |-> hits[r], base_url |-> BaseUrl(c)]]

\* an ascending stable sort reversed (sorted(docs, key=...)[::-1]): items of
\* equal score come out in reverse order
InsertAscending(sorted, d) ==
    LET n == Cardinality({i \in 1..Len(sorted) : sorted[i].score <= d.score})
    IN SubSeq(sorted, 1, n) \o <<d>> \o SubSeq(sorted, n + 1, Len(sorted))
RECURSIVE SortedAscending(_)
SortedAscending(docs) ==
    IF docs = <<>> THEN <<>>
    ELSE InsertAscending(SortedAscending(SubSeq(docs, 1, Len(docs) - 1)), docs[Len(docs)])
SortedThenReversed(docs) ==
    LET a == SortedAscending(docs) IN [i \in 1..Len(a) |-> a[Len(a) + 1 - i]]

\* sorted(docs, key=lambda x: x.score, reverse=True): a stable sort, so items
\* of equal score keep their order
InsertByScore(sorted, d) ==
    LET n == Cardinality({i \in 1..Len(sorted) : sorted[i].score >= d.score})
    IN SubSeq(sorted, 1, n) \o <<d>> \o SubSeq(sorted, n + 1, Len(sorted))
RECURSIVE SortedByScore(_)
SortedByScore(docs) ==
    IF docs = <<>> THEN <<>>
    ELSE InsertByScore(SortedByScore(SubSeq(docs, 1, Len(docs) - 1)), docs[Len(docs)])

\* docs[-3:] in place of docs[:3]
Bottom(docs) == SubSeq(docs, IF Len(docs) < TOP_N THEN 1 ELSE Len(docs) - TOP_N + 1, Len(docs))

\* docs[:3]
Top(docs) == SubSeq(docs, 1, IF Len(docs) < TOP_N THEN Len(docs) ELSE TOP_N)

\* DocumentSearchInput(...) of the "all" path
SearchInputAll(docs) ==
    [type |-> "DocumentSearchInput", relevant_context |-> docs, format |-> None]
\* SearchInputSingle with format=None, as in the "all" path
SearchInputSingleNoFormat(c, docs) ==
    [type |-> "DocumentSearchInput", relevant_context |-> docs, format |-> None]

\* DocumentSearchInput(...) of the single-channel path
SearchInputSingle(c, docs) ==
    [type |-> "DocumentSearchInput", relevant_context |-> docs, format |-> Format(c)]

\* return req.response with "response" in the fields of the
\* classifier's answer, but with a fixed text
TextResponseFixed(r) == [kind |-> "text", text |-> "t1"]

\* return req.response: the classifier's own text
TextResponse(r) == [kind |-> "text", text |-> r.response]

\* what follows a successful classification up to the next await
Dispatch(r) ==
    IF r.type \in {DirectResponse, LearnResponse} THEN
        /\ Return(TextResponse(r))
        /\ UNCHANGED <<chan_idx, searches, docs_with_score, synth_calls, future>>
        /\ UNCHANGED execVars
    ELSE IF r.type = CellposeTask THEN
        /\ \/ /\ image_data = "malformed"
              \* decode_base64 raises: return f"Failed to decode the image, ..."
              /\ Return([kind |-> "text", text |-> "Failed to decode the image"])
           \/ /\ image_data = "valid"
              \* read_image raises
              /\ Raise("read_image", "Exception")
           \/ /\ image_data = "valid"
              /\ pc' = "guess_image_axes"
              /\ UNCHANGED <<response, fault>>
        /\ UNCHANGED <<chan_idx, searches, docs_with_score, synth_calls, future>>
        /\ UNCHANGED execVars
    ELSE IF r.type = DocumentRetrievalInput THEN
        /\ IF r.channel_id = ALL THEN
              /\ pc' = "search_all"
              /\ chan_idx' = 1
              /\ UNCHANGED <<response, fault>>
           ELSE IF r.channel_id \in RegisteredSet(num_channels) THEN
              /\ pc' = "search_single"
              /\ UNCHANGED <<chan_idx, response, fault>>
           ELSE
              \* docs_store_dict[req.channel_id] raises KeyError
              /\ Raise("docs_store_dict", "KeyError")
              /\ UNCHANGED chan_idx
        /\ UNCHANGED <<searches, docs_with_score, synth_calls, future>>
        /\ UNCHANGED execVars
    ELSE
        \* loop.run_in_executor(None, execute_code, req.script, {...})
        /\ \E w \in Workers :
              /\ xpc[w] = "idle"
              /\ future' = w
              /\ xpc' = [xpc EXCEPT ![w] = "l49"]
              /\ script' = [script EXCEPT ![w] = r.script]
              /\ ip' = [ip EXCEPT ![w] = 0]
        /\ pc' = "await_exec"
        /\ UNCHANGED <<chan_idx, searches, docs_with_score, synth_calls, response, fault>>
        /\ UNCHANGED <<sys_stdout, sys_stderr, contents, original_stdout,
                       original_stderr, stdout_output, stderr_output, retval, pending,
                       queue>>

AaskRecord(outcome) ==
    [inputs |-> Inputs(channel_info),
     variants |-> Variants(channel_info, image_data),
     outcome |-> outcome]

\* the first role.aask(inputs, ...) and what follows it
Classify ==
    /\ pc = "classify"
    \* customer_service.handle(...) of chat() runs the handler
    /\ cpc[1] = "handle"
    /\ \/ \E r \in ResultsOf(Variants(channel_info, image_data), num_channels) :
             /\ aasks' = Append(aasks, AaskRecord("ok"))
             /\ req' = r
             /\ Dispatch(r)
       \/ /\ aasks' = Append(aasks, AaskRecord("Exception"))
          \* except Exception: try again
          /\ pc' = "retry"
          /\ UNCHANGED <<req, chan_idx, searches, docs_with_score, synth_calls,
                         response, fault, future>>
          /\ UNCHANGED execVars
       \/ /\ aasks' = Append(aasks, AaskRecord("CancelledError"))
          /\ Raise("classifier", "CancelledError")
          /\ UNCHANGED <<req, chan_idx, searches, docs_with_score, synth_calls, future>>
          /\ UNCHANGED execVars
    /\ UNCHANGED <<inputVars, resource_items>>
    /\ UNCHANGED <<configVars, chatVars>>

\* ClassifyAgain retrying once more when the retry raises an Exception
ClassifyAgainRetrying ==
    /\ pc = "retry"
    /\ \/ \E r \in ResultsOf(Variants(channel_info, image_data), num_channels) :
             /\ aasks' = Append(aasks, AaskRecord("ok"))
             /\ req' = r
             /\ Dispatch(r)
       \/ /\ aasks' = Append(aasks, AaskRecord("Exception"))
          /\ UNCHANGED <<pc, req, chan_idx, searches, docs_with_score, synth_calls,
                         response, fault, future>>
          /\ UNCHANGED execVars
    /\ UNCHANGED <<inputVars, resource_items>>
    /\ UNCHANGED <<configVars, chatVars>>

\* the role.aask(inputs, ...) of the except branch and what follows it
ClassifyAgain ==
    /\ pc = "retry"
    /\ \/ \E r \in ResultsOf(Variants(channel_info, image_data), num_channels) :
             /\ aasks' = Append(aasks, AaskRecord("ok"))
             /\ req' = r
             /\ Dispatch(r)
       \/ \E f \in AwaitFaults :
             /\ aasks' = Append(aasks, AaskRecord(f))
             /\ Raise("classifier", f)
             /\ UNCHANGED <<req, chan_idx, searches, docs_with_score, synth_calls, future>>
             /\ UNCHANGED execVars
    /\ UNCHANGED <<inputVars, resource_items>>
    /\ UNCHANGED <<configVars, chatVars>>

\* the image task after decoding: await guess_image_axes, resize, the answer
\* for an unknown task
GuessImageAxes ==
    /\ pc = "guess_image_axes"
    /\ \/ \E f \in AwaitFaults : Raise("guess_image_axes", f)
       \/ /\ req.task = "unknown"
          /\ Return([kind |-> "text", text |-> "Here's the image you've uploaded"])
       \/ /\ req.task # "unknown"
          /\ pc' = "run_cellpose"
          /\ UNCHANGED <<response, fault>>
    /\ UNCHANGED <<aasks, req, chan_idx, searches, docs_with_score, synth_calls, future>>
    /\ UNCHANGED execVars
    /\ UNCHANGED <<inputVars, resource_items>>
    /\ UNCHANGED <<configVars, chatVars>>

\* await run_cellpose(...) and the answer built from its result
RunCellpose ==
    /\ pc = "run_cellpose"
    /\ \/ \E f \in AwaitFaults : Raise("run_cellpose", f)
       \/ Return([kind |-> "text", text |-> "Cellpose segmentation results"])
    /\ UNCHANGED <<aasks, req, chan_idx, searches, docs_with_score, synth_calls, future>>
    /\ UNCHANGED execVars
    /\ UNCHANGED <<inputVars, resource_items>>
    /\ UNCHANGED <<configVars, chatVars>>

\* the searches awaited at once if the loop were a gather over the channels
\* still to search
InFlightGathered ==
    IF pc = "search_all"
    THEN {RegisteredChannels(num_channels)[i] : i \in chan_idx..num_channels}
    ELSE IF pc = "search_single" THEN {req.channel_id}
    ELSE {}

\* the searches issued and not yet completed: the coroutine is suspended in
\* `await docs_store.asearch(...)` of one channel, the one of this turn of
\* the loop or the one the classifier named
InFlight ==
    IF pc = "search_all" THEN {RegisteredChannels(num_channels)[chan_idx]}
    ELSE IF pc = "search_single" THEN {req.channel_id}
    ELSE {}

\* one turn of the loop over docs_store_dict.keys(): the awaited search of
\* channel chan_idx with k=2 and what follows it up to the next await
SearchAll ==
    /\ pc = "search_all"
    /\ LET c == RegisteredChannels(num_channels)[chan_idx] IN
       \/ \E f \in AwaitFaults :
             /\ searches' = Append(searches, [channel |-> c, k |-> K_ALL, outcome |-> f, hits |-> <<>>])
             /\ Raise("docs_store", f)
             /\ UNCHANGED <<chan_idx, docs_with_score, synth_calls>>
       \/ \E hits \in Hits(K_ALL) :
             LET docs == docs_with_score \o NewDocsWithScore(c, hits) IN
             /\ searches' = Append(searches, [channel |-> c, k |-> K_ALL, outcome |-> "ok", hits |-> hits])
             /\ IF Len(hits) < 2 THEN
                   \* print(... new_docs_with_score[0] ... new_docs_with_score[1] ...)
                   /\ Raise("print", "IndexError")
                   /\ docs_with_score' = docs
                   /\ UNCHANGED <<chan_idx, synth_calls>>
                ELSE IF chan_idx < num_channels THEN
                   /\ chan_idx' = chan_idx + 1
                   /\ docs_with_score' = docs
                   /\ UNCHANGED <<pc, synth_calls, response, fault>>
                ELSE
                   /\ docs_with_score' = Top(SortedByScore(docs))
                   /\ synth_calls' = Append(synth_calls, SearchInputAll(docs_with_score'))
                   /\ pc' = "synth"
                   /\ UNCHANGED <<chan_idx, response, fault>>
    /\ UNCHANGED <<aasks, req, future>>
    /\ UNCHANGED execVars
    /\ UNCHANGED <<inputVars, resource_items>>
    /\ UNCHANGED <<configVars, chatVars>>

\* the awaited search of the channel req.channel_id with k=3 and what
\* follows it up to the next await
SearchSingle ==
    /\ pc = "search_single"
    /\ LET c == req.channel_id IN
       \/ \E f \in AwaitFaults :
             /\ searches' = Append(searches, [channel |-> c, k |-> K_SINGLE, outcome |-> f, hits |-> <<>>])
             /\ Raise("docs_store", f)
             /\ UNCHANGED <<docs_with_score, synth_calls>>
       \/ \E hits \in Hits(K_SINGLE) :
             /\ searches' = Append(searches, [channel |-> c, k |-> K_SINGLE, outcome |-> "ok", hits |-> hits])
             /\ docs_with_score' = NewDocsWithScore(c, hits)
             /\ IF Len(hits) < 3 THEN
                   \* print(... docs_with_score[0] ... [1] ... [2] ...)
                   /\ Raise("print", "IndexError")
                   /\ UNCHANGED synth_calls
                ELSE
                   /\ synth_calls' = Append(synth_calls, SearchInputSingle(c, docs_with_score'))
                   /\ pc' = "synth"
                   /\ UNCHANGED <<response, fault>>
    /\ UNCHANGED <<aasks, req, chan_idx, future>>
    /\ UNCHANGED execVars
    /\ UNCHANGED <<inputVars, resource_items>>
    /\ UNCHANGED <<configVars, chatVars>>

\* the awaited role.aask(<input>, FinalResponse) and the response built
\* from it
Synthesize ==
    /\ pc = "synth"
    /\ \/ \E f \in AwaitFaults : Raise("synthesizer", f)
       \/ \E t \in Texts :
             IF req.type = DocumentRetrievalInput
             THEN Return([kind |-> "retrieval", text |-> t, references |-> docs_with_score])
             ELSE Return([kind |-> "script", text |-> t, script |-> req.script,
                          result |-> retval[future]])
    /\ UNCHANGED <<aasks, req, chan_idx, searches, docs_with_score, synth_calls, future>>
    /\ UNCHANGED execVars
    /\ UNCHANGED <<inputVars, resource_items>>
    /\ UNCHANGED <<configVars, chatVars>>

(***************************************************************************)
(* execute_code, statement by statement, on executor thread w.             *)
(***************************************************************************)
execLocals == <<script, original_stdout, original_stderr, stdout_output,
                stderr_output, retval, pending>>

\* original_stdout = sys.stdout
SaveStdout(w) ==
    /\ xpc[w] = "l49"
    /\ original_stdout' = [original_stdout EXCEPT ![w] = sys_stdout]
    /\ xpc' = [xpc EXCEPT ![w] = "l50"]
    /\ UNCHANGED <<sys_stdout, sys_stderr, contents, script, ip, original_stderr,
                   stdout_output, stderr_output, retval, pending>>
    /\ UNCHANGED <<routerVars, queue>>
    /\ UNCHANGED <<inputVars, resource_items>>
    /\ UNCHANGED <<configVars, chatVars>>

\* original_stderr = sys.stderr
SaveStderr(w) ==
    /\ xpc[w] = "l50"
    /\ original_stderr' = [original_stderr EXCEPT ![w] = sys_stderr]
    /\ xpc' = [xpc EXCEPT ![w] = "l51"]
    /\ UNCHANGED <<sys_stdout, sys_stderr, contents, script, ip, original_stdout,
                   stdout_output, stderr_output, retval, pending>>
    /\ UNCHANGED <<routerVars, queue>>
    /\ UNCHANGED <<inputVars, resource_items>>
    /\ UNCHANGED <<configVars, chatVars>>

\* sys.stdout = io.StringIO()
RedirectStdout(w) ==
    /\ xpc[w] = "l51"
    /\ sys_stdout' = StdoutBuffer(w)
    /\ contents' = [contents EXCEPT ![StdoutBuffer(w)] = <<>>]
    /\ xpc' = [xpc EXCEPT ![w] = "l52"]
    /\ UNCHANGED <<sys_stderr, ip>>
    /\ UNCHANGED execLocals
    /\ UNCHANGED <<routerVars, queue>>
    /\ UNCHANGED <<inputVars, resource_items>>
    /\ UNCHANGED <<configVars, chatVars>>

\* sys.stderr = io.StringIO()
RedirectStderr(w) ==
    /\ xpc[w] = "l52"
    /\ sys_stderr' = StderrBuffer(w)
    /\ contents' = [contents EXCEPT ![StderrBuffer(w)] = <<>>]
    /\ xpc' = [xpc EXCEPT ![w] = "l59"]
    /\ UNCHANGED <<sys_stdout, ip>>
    /\ UNCHANGED execLocals
    /\ UNCHANGED <<routerVars, queue>>
    /\ UNCHANGED <<inputVars, resource_items>>
    /\ UNCHANGED <<configVars, chatVars>>

\* an except clause that catches SyntaxError alone
CaughtOnlySyntaxError(type) == type = "SyntaxError"

\* the exception classes `except Exception` catches
CaughtByExcept(type) ==
    type \in {"Exception", "SyntaxError", "AttributeError", "KeyError", "IndexError",
              "AssertionError", "ValidationError", "OSError"}

\* an exception of class type is raised inside the try block: control goes
\* to the except clause if it catches the class, else to the finally clause
RaiseInTry(w, type, str) ==
    /\ pending' = [pending EXCEPT ![w] = [type |-> type, str |-> str]]
    /\ xpc' = [xpc EXCEPT ![w] = IF CaughtByExcept(type) THEN "l71" ELSE "l78"]

\* exec(script, local_vars): compiling the script, then one statement
ExecStatement(w) ==
    /\ xpc[w] = "l59"
    /\ IF ~script[w].compiles THEN
          /\ RaiseInTry(w, "SyntaxError", StrOfFault("syntax"))
          /\ UNCHANGED <<contents, ip>>
       ELSE IF ip[w] = Len(script[w].body) THEN
          /\ xpc' = [xpc EXCEPT ![w] = "l62"]
          /\ UNCHANGED <<contents, ip, pending>>
       ELSE LET stmt == script[w].body[ip[w] + 1] IN
          /\ ip' = [ip EXCEPT ![w] = ip[w] + 1]
          /\ IF stmt \in PrintStatements THEN
                /\ contents' = [contents EXCEPT ![sys_stdout] = Append(@, Written(stmt, resource_items))]
                /\ UNCHANGED <<xpc, pending>>
             ELSE IF stmt = "eprint" THEN
                /\ contents' = [contents EXCEPT ![sys_stderr] = Append(@, Written(stmt, resource_items))]
                /\ UNCHANGED <<xpc, pending>>
             ELSE IF stmt = "clear" THEN
                /\ UNCHANGED <<contents, xpc, pending>>
             ELSE
                /\ RaiseInTry(w, IF stmt = "sys_exit" THEN "SystemExit" ELSE "Exception",
                              StrOfFault(stmt))
                /\ UNCHANGED <<contents>>
    \* resources.clear(): local_vars is a shallow copy, `resources` in it is
    \* the list object of the service
    /\ resource_items' =
          IF /\ script[w].compiles
             /\ ip[w] < Len(script[w].body)
             /\ script[w].body[ip[w] + 1] = "clear"
          THEN <<>> ELSE resource_items
    /\ UNCHANGED <<sys_stdout, sys_stderr, script, original_stdout, original_stderr,
                   stdout_output, stderr_output, retval>>
    /\ UNCHANGED <<routerVars, queue>>
    /\ UNCHANGED inputVars
    /\ UNCHANGED <<configVars, chatVars>>

\* a process stream has no getvalue(): AttributeError
HasGetvalue(stream) == stream \notin {REAL_STDOUT, REAL_STDERR}

\* stdout_output = sys.stdout.getvalue()
CaptureStdout(w) ==
    /\ xpc[w] = "l62"
    /\ IF HasGetvalue(sys_stdout) THEN
          /\ stdout_output' = [stdout_output EXCEPT ![w] = contents[sys_stdout]]
          /\ xpc' = [xpc EXCEPT ![w] = "l63"]
          /\ UNCHANGED pending
       ELSE
          /\ RaiseInTry(w, "AttributeError", <<"no attribute 'getvalue'">>)
          /\ UNCHANGED stdout_output
    /\ UNCHANGED <<sys_stdout, sys_stderr, contents, script, ip, original_stdout,
                   original_stderr, stderr_output, retval>>
    /\ UNCHANGED <<routerVars, queue>>
    /\ UNCHANGED <<inputVars, resource_items>>
    /\ UNCHANGED <<configVars, chatVars>>

\* TryResult with the two captured texts exchanged
TryResultSwapped(out, err) == [kind |-> "result", stdout |-> err, stderr |-> out]

\* the result of the try block: stdout, stderr
TryResult(out, err) == [kind |-> "result", stdout |-> out, stderr |-> err]

\* stderr_output = sys.stderr.getvalue(); return {"stdout": ..., "stderr": ...}
\* (the finally clause runs before the function returns)
CaptureStderr(w) ==
    /\ xpc[w] = "l63"
    /\ IF HasGetvalue(sys_stderr) THEN
          /\ stderr_output' = [stderr_output EXCEPT ![w] = contents[sys_stderr]]
          /\ retval' = [retval EXCEPT ![w] = TryResult(stdout_output[w], contents[sys_stderr])]
          /\ xpc' = [xpc EXCEPT ![w] = "l78"]
          /\ UNCHANGED pending
       ELSE
          /\ RaiseInTry(w, "AttributeError", <<"no attribute 'getvalue'">>)
          /\ UNCHANGED <<stderr_output, retval>>
    /\ UNCHANGED <<sys_stdout, sys_stderr, contents, script, ip, original_stdout,
                   original_stderr, stdout_output>>
    /\ UNCHANGED <<routerVars, queue>>
    /\ UNCHANGED <<inputVars, resource_items>>
    /\ UNCHANGED <<configVars, chatVars>>

\* the result of the except clause: {"stdout": "", "stderr": str(e)}
\* the except clause returning a text as stdout
ExceptResultWithOutput(e) == [kind |-> "result", stdout |-> <<"a\n">>, stderr |-> e.str]

\* {"stdout": "", "stderr": str(e)}
ExceptResult(e) == [kind |-> "result", stdout |-> <<>>, stderr |-> e.str]

\* except Exception as e: return {...}
ExceptClause(w) ==
    /\ xpc[w] = "l71"
    /\ retval' = [retval EXCEPT ![w] = ExceptResult(pending[w])]
    /\ pending' = [pending EXCEPT ![w] = NoPending]
    /\ xpc' = [xpc EXCEPT ![w] = "l78"]
    /\ UNCHANGED <<sys_stdout, sys_stderr, contents, script, ip, original_stdout,
                   original_stderr, stdout_output, stderr_output>>
    /\ UNCHANGED <<routerVars, queue>>
    /\ UNCHANGED <<inputVars, resource_items>>
    /\ UNCHANGED <<configVars, chatVars>>

\* finally: sys.stdout = original_stdout
RestoreStdout(w) ==
    /\ xpc[w] = "l78"
    /\ sys_stdout' = original_stdout[w]
    /\ xpc' = [xpc EXCEPT ![w] = "l79"]
    /\ UNCHANGED <<sys_stderr, contents, ip>>
    /\ UNCHANGED execLocals
    /\ UNCHANGED <<routerVars, queue>>
    /\ UNCHANGED <<inputVars, resource_items>>
    /\ UNCHANGED <<configVars, chatVars>>

\* where the finally clause ends: the function returns its result, or the
\* exception no clause caught goes on to the caller
AfterFinally(w) == IF pending[w].type = "none" THEN "returned" ELSE "raised"

\* RestoreStderr assigning original_stdout (sys.stderr = original_stdout)
RestoreStderrFromStdout(w) ==
    /\ xpc[w] = "l79"
    /\ sys_stderr' = original_stdout[w]
    /\ xpc' = [xpc EXCEPT ![w] = AfterFinally(w)]
    /\ UNCHANGED <<sys_stdout, contents, ip>>
    /\ UNCHANGED execLocals
    /\ UNCHANGED <<routerVars, queue>>
    /\ UNCHANGED <<inputVars, resource_items>>
    /\ UNCHANGED <<configVars, chatVars>>

\* finally: sys.stderr = original_stderr
RestoreStderr(w) ==
    /\ xpc[w] = "l79"
    /\ sys_stderr' = original_stderr[w]
    /\ xpc' = [xpc EXCEPT ![w] = AfterFinally(w)]
    /\ UNCHANGED <<sys_stdout, contents, ip>>
    /\ UNCHANGED execLocals
    /\ UNCHANGED <<routerVars, queue>>
    /\ UNCHANGED <<inputVars, resource_items>>
    /\ UNCHANGED <<configVars, chatVars>>

\* ModelZooInfoScriptResults(stdout=result["stdout"], stderr=result["stderr"], ...)
ScriptResults(result) ==
    [type |-> "ModelZooInfoScriptResults", stdout |-> result.stdout,
     stderr |-> result.stderr, request |-> "request"]

\* result = await loop.run_in_executor(...): the future is done; the
\* synthesizer is asked, or the exception of execute_code is raised here
AwaitExecutor ==
    /\ pc = "await_exec"
    /\ xpc[future] \in {"returned", "raised"}
    /\ IF xpc[future] = "raised" THEN
          /\ Raise("execute_code", pending[future].type)
          /\ UNCHANGED synth_calls
       ELSE
          /\ synth_calls' = Append(synth_calls, ScriptResults(retval[future]))
          /\ pc' = "synth"
          /\ UNCHANGED <<response, fault>>
    /\ UNCHANGED <<aasks, req, chan_idx, searches, docs_with_score, future>>
    /\ UNCHANGED execVars
    /\ UNCHANGED <<inputVars, resource_items>>
    /\ UNCHANGED <<configVars, chatVars>>

(***************************************************************************)
(* chat(), per call c, and the event bus.                                  *)
(***************************************************************************)
\* check_permission(user)
check_permission(user) ==
    authorized_emails = NoEmails \/ user \in authorized_emails[2]

\* channel_id_by_name[channel], with 'auto' read as no channel
ChannelIdByName(channel) == IF channel = AUTO THEN None ELSE channel

\* the arguments of a chat call; the transcript of a session is what a
\* caller that reloads its conversation passes as chat_history
ChatArgs ==
    [text : {"t1"},
     chat_history : {<<>>} \cup {transcripts[s].conversations : s \in AllSessions},
     user_profile : {"valid", "invalid"},
     channel : {None, AUTO, LEARN, BIOIMAGE_IO, UNKNOWN_NAME},
     session_id : SessionIds \cup {None},
     image_data : {"none", "valid"},
     context : Contexts]

\* the arguments of the calls of a signed-in caller who starts conversations
BusArgs ==
    [text : {"t1"},
     chat_history : {<<>>},
     user_profile : {"valid", "invalid"},
     channel : {None, UNKNOWN_NAME},
     session_id : SessionIds \cup {None},
     image_data : {"none", "valid"},
     context : {"member"}]

\* the arguments of the call that is followed through respond_to_user: its
\* channel and image are those of the request
DetailedArgs ==
    [text : {"t1"},
     chat_history : {PriorHistory},
     user_profile : {"valid", "invalid"},
     channel : {ch \in ChannelSelections(num_channels) \cup {AUTO} :
                    ChannelIdByName(ch) = channel_info} \cup {UNKNOWN_NAME},
     session_id : {None},
     image_data : {image_data},
     context : {"member"}]

\* chat() ends by raising an exception of class type
ChatRaise(c, type) ==
    /\ cpc' = [cpc EXCEPT ![c] = "raised"]
    /\ chat_fault' = [chat_fault EXCEPT ![c] = type]

\* chat(text, chat_history, ...) from its first line to its first await:
\* the permission check, the session id, event_bus.on, the channel lookup,
\* the QuestionWithHistory
ChatEnter(c, a) ==
    /\ cpc[c] = "idle"
    /\ IF login_required /\ HasUser(a.context) /\ ~check_permission(a.context) THEN
          /\ ChatRaise(c, "AssertionError")
          /\ context' = [context EXCEPT ![c] = a.context]
          /\ UNCHANGED <<listeners, text, chat_history, session_id>>
       ELSE
          /\ session_id' = [session_id EXCEPT ![c] =
                               IF a.session_id = None THEN Token(c) ELSE a.session_id]
          /\ listeners' = listeners \cup {c}
          /\ text' = [text EXCEPT ![c] = a.text]
          /\ chat_history' = [chat_history EXCEPT ![c] = a.chat_history]
          /\ context' = [context EXCEPT ![c] = a.context]
          /\ IF a.channel = UNKNOWN_NAME THEN
                \* assert channel in channel_id_by_name
                ChatRaise(c, "AssertionError")
             ELSE IF a.user_profile = "invalid" THEN
                \* UserProfile.parse_obj(user_profile)
                ChatRaise(c, "ValidationError")
             ELSE
                /\ cpc' = [cpc EXCEPT ![c] =
                              IF a.image_data # "none" THEN "uploading" ELSE "handle"]
                /\ UNCHANGED chat_fault
    /\ UNCHANGED <<transcripts, chat_response, chat_history_json, forwarded>>
    /\ UNCHANGED <<routerVars, execVars, inputVars, resource_items, configVars, reports>>

\* await status_callback({"type": "text", "content": "Uploading image..."})
UploadNotice(c) ==
    /\ cpc[c] = "uploading"
    /\ \/ \E f \in AwaitFaults :
             /\ ChatRaise(c, f)
             /\ UNCHANGED forwarded
       \/ /\ forwarded' = [forwarded EXCEPT ![c] =
                              @ \cup {[kind |-> "notice", type |-> "text", session |-> None]}]
          /\ cpc' = [cpc EXCEPT ![c] = "handle"]
          /\ UNCHANGED chat_fault
    /\ UNCHANGED <<listeners, transcripts, text, chat_history, context, session_id,
                   chat_response, chat_history_json>>
    /\ UNCHANGED <<routerVars, execVars, inputVars, resource_items, configVars, reports>>

\* stream_callback of call l forwards every message it is given
ForwardsAnySession(l, message) ==
    message.type \in {"function_call", "text"}

\* stream_callback of call l: the test it makes before
\* `await status_callback(message.dict())`
Forwards(l, message) ==
    /\ message.type \in {"function_call", "text"}
    /\ message.session = session_id[l]

\* a "stream" event published on the bus while call c is handled: every
\* registered stream_callback is called with it
Emit(c) ==
    /\ cpc[c] = "handle"
    /\ \E type \in {"function_call", "other"} :
          LET message == [kind |-> "stream", type |-> type, session |-> session_id[c]] IN
          forwarded' = [l \in Calls |->
                           IF l \in listeners /\ Forwards(l, message)
                           THEN forwarded[l] \cup {message}
                           ELSE forwarded[l]]
    /\ UNCHANGED <<listeners, transcripts, cpc, text, chat_history, context, session_id,
                   chat_response, chat_fault, chat_history_json>>
    /\ UNCHANGED <<routerVars, execVars, inputVars, resource_items, configVars, reports>>

\* the two re.sub of chat(): the input image is removed from the
\* response; the pattern for the result image matches no data URL
ResponseNoImages(r) ==
    IF r.text = "Here's the image you've uploaded"
    THEN "Here's the image you've uploaded (input image removed)"
    ELSE r.text

\* chat() from the end of `await customer_service.handle(...)` to its next
\* await: the except / else clauses, the two appends to chat_history, the
\* chat_his_dict and json.dumps of save_chat_history
AfterHandle(c, outcome) ==
    /\ IF outcome.kind = "fault" THEN
          \* except Exception as e: event_bus.off(...); raise e
          /\ listeners' = IF CaughtByExcept(outcome.type) THEN listeners \ {c} ELSE listeners
          /\ ChatRaise(c, outcome.type)
          /\ UNCHANGED <<chat_history, chat_response, chat_history_json>>
       ELSE
          /\ listeners' = listeners \ {c}
          /\ chat_response' = [chat_response EXCEPT ![c] = outcome.response]
          /\ IF session_id[c] = None THEN
                /\ cpc' = [cpc EXCEPT ![c] = "returned"]
                /\ UNCHANGED <<chat_history, chat_fault, chat_history_json>>
             ELSE
                /\ chat_history' = [chat_history EXCEPT ![c] =
                                       @ \o <<Entry("user", text[c]),
                                              Entry("assistant", ResponseNoImages(outcome.response))>>]
                /\ IF context[c] = "none" THEN
                      \* 'user': context.get('user') with context=None
                      /\ ChatRaise(c, "AttributeError")
                      /\ UNCHANGED chat_history_json
                   ELSE
                      /\ chat_history_json' = [chat_history_json EXCEPT ![c] = chat_history'[c]]
                      /\ cpc' = [cpc EXCEPT ![c] = "saving"]
                      /\ UNCHANGED chat_fault
    /\ UNCHANGED <<transcripts, text, context, session_id, forwarded>>

\* respond_to_user has returned or raised: chat() goes on
ChatHandled ==
    /\ cpc[1] = "handle"
    /\ pc \in {"done", "raised"}
    /\ IF pc = "done"
       THEN AfterHandle(1, [kind |-> "response", response |-> response])
       ELSE AfterHandle(1, [kind |-> "fault", type |-> fault.type])
    /\ UNCHANGED <<routerVars, execVars, inputVars, resource_items, configVars, reports>>

\* the exception classes a handler may end with
HandlerFaults == AwaitFaults

\* `await customer_service.handle(...)` of call c, by its outcome alone: a
\* response or an exception
Handle(c) ==
    /\ cpc[c] = "handle"
    /\ \/ AfterHandle(c, [kind |-> "response", response |-> [kind |-> "text", text |-> "t1"]])
       \/ \E f \in HandlerFaults : AfterHandle(c, [kind |-> "fault", type |-> f])
    /\ UNCHANGED <<routerVars, execVars, inputVars, resource_items, configVars, reports>>

\* a write that is put after what the file holds
FileAfterAppend(stored, json) == stored \o json

\* what a file holds after json was written through a file object opened
\* with mode 'w': the write goes to the start of the file, whatever another
\* file object has put there since the file was opened
FileAfterWrite(stored, json) == json \o SubSeq(stored, Len(json) + 1, Len(stored))

\* save_chat_history after json.dumps: `async with aiofiles.open(path,
\* mode='w')` truncates the file, or fails
SaveChatHistory(c) ==
    /\ cpc[c] = "saving"
    /\ \/ /\ transcripts' = [transcripts EXCEPT ![session_id[c]] =
                                [exists |-> TRUE, conversations |-> <<>>]]
          /\ cpc' = [cpc EXCEPT ![c] = "writing"]
          /\ UNCHANGED chat_fault
       \/ \* aiofiles.open raises
          /\ ChatRaise(c, "OSError")
          /\ UNCHANGED transcripts
    /\ UNCHANGED <<listeners, text, chat_history, context, session_id, chat_response,
                   chat_history_json, forwarded>>
    /\ UNCHANGED <<routerVars, execVars, inputVars, resource_items, configVars, reports>>

\* `await f.write(chat_history_json)` and the close of the file: the text
\* reaches the file, or writing it fails
WriteChatHistory(c) ==
    /\ cpc[c] = "writing"
    /\ \/ /\ transcripts' = [transcripts EXCEPT ![session_id[c]].conversations =
                                FileAfterWrite(@, chat_history_json[c])]
          /\ cpc' = [cpc EXCEPT ![c] = "returned"]
          /\ UNCHANGED chat_fault
       \/ \* f.write raises
          /\ ChatRaise(c, "OSError")
          /\ UNCHANGED transcripts
    /\ UNCHANGED <<listeners, text, chat_history, context, session_id, chat_response,
                   chat_history_json, forwarded>>
    /\ UNCHANGED <<routerVars, execVars, inputVars, resource_items, configVars, reports>>

\* report(user_report, context) from its first line to its await: the
\* permission check and the chat_his_dict, which reads context.get('user')
Report(c, ctx) ==
    /\ cpc[c] = "idle"
    /\ context' = [context EXCEPT ![c] = ctx]
    /\ IF login_required /\ HasUser(ctx) /\ ~check_permission(ctx) THEN
          ChatRaise(c, "AssertionError")
       ELSE IF ctx = "none" THEN
          \* None has no attribute 'get'
          ChatRaise(c, "AttributeError")
       ELSE
          /\ cpc' = [cpc EXCEPT ![c] = "reporting"]
          /\ UNCHANGED chat_fault
    /\ UNCHANGED <<listeners, transcripts, reports, text, chat_history, session_id,
                   chat_response, chat_history_json, forwarded>>
    /\ UNCHANGED <<routerVars, execVars, inputVars, resource_items, configVars>>

\* await save_chat_history(chat_log_full_path, chat_his_dict) of report
SaveReport(c) ==
    /\ cpc[c] = "reporting"
    /\ \/ /\ reports' = [reports EXCEPT ![c] = "written"]
          /\ cpc' = [cpc EXCEPT ![c] = "reported"]
          /\ UNCHANGED chat_fault
       \/ \* aiofiles.open raises
          /\ ChatRaise(c, "OSError")
          /\ UNCHANGED reports
       \/ \* f.write raises: the file was created when it was opened
          /\ reports' = [reports EXCEPT ![c] = "empty"]
          /\ ChatRaise(c, "OSError")
    /\ UNCHANGED <<listeners, transcripts, text, chat_history, context, session_id,
                   chat_response, chat_history_json, forwarded>>
    /\ UNCHANGED <<routerVars, execVars, inputVars, resource_items, configVars>>

\* ping(context): the permission check, then return "pong"
Ping(c, ctx) ==
    /\ cpc[c] = "idle"
    /\ context' = [context EXCEPT ![c] = ctx]
    /\ IF login_required /\ HasUser(ctx) /\ ~check_permission(ctx) THEN
          ChatRaise(c, "AssertionError")
       ELSE
          /\ cpc' = [cpc EXCEPT ![c] = "pong"]
          /\ UNCHANGED chat_fault
    /\ UNCHANGED <<listeners, transcripts, reports, text, chat_history, session_id,
                   chat_response, chat_history_json, forwarded>>
    /\ UNCHANGED <<routerVars, execVars, inputVars, resource_items, configVars>>

Next ==
    \/ \E a \in DetailedArgs : ChatEnter(1, a)
    \/ UploadNotice(1)
    \/ ChatHandled
    \/ SaveChatHistory(1)
    \/ WriteChatHistory(1)
    \/ Classify
    \/ ClassifyAgain
    \/ GuessImageAxes
    \/ RunCellpose
    \/ SearchAll
    \/ SearchSingle
    \/ Synthesize
    \/ AwaitExecutor
    \/ \E w \in Workers :
          \/ SaveStdout(w)
          \/ SaveStderr(w)
          \/ RedirectStdout(w)
          \/ RedirectStderr(w)
          \/ ExecStatement(w)
          \/ CaptureStdout(w)
          \/ CaptureStderr(w)
          \/ ExceptClause(w)
          \/ RestoreStdout(w)
          \/ RestoreStderr(w)

Spec == Init /\ [][Next]_vars

\* NumCalls chat calls in flight on one service, each handler taken by its
\* outcome, with every kind of caller and of configuration; the stream
\* events are left to SpecBus
InitChat ==
    /\ num_channels = 1
    /\ channel_info = None
    /\ image_data = "none"
    /\ model_info = <<>>
    /\ resource_items = model_info
    /\ login_required \in BOOLEAN
    /\ authorized_emails \in
          IF login_required THEN {NoEmails, Emails(AuthorizedUsers)} ELSE {NoEmails}
    /\ InitService

NextChat ==
    \E c \in Calls :
        \/ \E a \in ChatArgs : ChatEnter(c, a)
        \/ UploadNotice(c)
        \/ Handle(c)
        \/ SaveChatHistory(c)
        \/ WriteChatHistory(c)
        \/ \E ctx \in Contexts : Report(c, ctx)
        \/ SaveReport(c)
        \/ \E ctx \in Contexts : Ping(c, ctx)

SpecChat == InitChat /\ [][NextChat]_vars

\* the same calls with the stream events published while they are handled,
\* on a service that requires no login and for a caller who starts a
\* conversation with each call
InitBus == InitChat /\ login_required = FALSE

NextBus ==
    \E c \in Calls :
        \/ \E a \in BusArgs : ChatEnter(c, a)
        \/ UploadNotice(c)
        \/ Emit(c)
        \/ Handle(c)
        \/ SaveChatHistory(c)
        \/ WriteChatHistory(c)

SpecBus == InitBus /\ [][NextBus]_vars

\* the call of thread w has ended
Finished(w) == xpc[w] \in {"returned", "raised"}

\* the scripts of requests that overlap: one that writes nothing, one that
\* prints, one that raises
OverlapScripts ==
    {s \in Scripts : s.compiles /\ Len(s.body) <= 1
                        /\ \A i \in 1..Len(s.body) : s.body[i] \in {"print_a", "raise_boom"}}

\* loop.run_in_executor(None, execute_code, script, {"resources":
\* resource_items}) of a request whose other steps are left out: the call
\* starts on a free thread of the executor
RunInExecutor(w, s) ==
    /\ xpc[w] = "idle"
    /\ xpc' = [xpc EXCEPT ![w] = "l49"]
    /\ script' = [script EXCEPT ![w] = s]
    /\ ip' = [ip EXCEPT ![w] = 0]
    /\ UNCHANGED <<sys_stdout, sys_stderr, contents, original_stdout, original_stderr,
                   stdout_output, stderr_output, retval, pending>>
    /\ UNCHANGED <<routerVars, queue>>
    /\ UNCHANGED <<inputVars, resource_items>>
    /\ UNCHANGED <<configVars, chatVars>>

\* the queued calls no thread has taken yet, and the oldest of them
Waiting == {i \in 1..Len(queue) : ~queue[i].taken}
FirstWaiting == CHOOSE i \in Waiting : \A j \in Waiting : i <= j

\* the same run_in_executor when every thread of the pool is running a
\* call: the call is queued
Enqueue(s) ==
    /\ \A w \in Workers : xpc[w] # "idle" /\ ~Finished(w)
    /\ Len(queue) < MaxQueued
    /\ queue' = Append(queue, [script |-> s, taken |-> FALSE])
    /\ UNCHANGED <<sys_stdout, sys_stderr, contents, xpc, script, ip, original_stdout,
                   original_stderr, stdout_output, stderr_output, retval, pending>>
    /\ UNCHANGED routerVars
    /\ UNCHANGED <<inputVars, resource_items>>
    /\ UNCHANGED <<configVars, chatVars>>

\* a thread of the pool whose call has ended takes the next queued call
TakeQueued(w) ==
    /\ Finished(w)
    /\ Waiting # {}
    /\ queue' = [queue EXCEPT ![FirstWaiting].taken = TRUE]
    /\ xpc' = [xpc EXCEPT ![w] = "l49"]
    /\ script' = [script EXCEPT ![w] = queue[FirstWaiting].script]
    /\ ip' = [ip EXCEPT ![w] = 0]
    /\ stdout_output' = [stdout_output EXCEPT ![w] = <<>>]
    /\ stderr_output' = [stderr_output EXCEPT ![w] = <<>>]
    /\ retval' = [retval EXCEPT ![w] = NoResult]
    /\ pending' = [pending EXCEPT ![w] = NoPending]
    /\ UNCHANGED <<sys_stdout, sys_stderr, contents, original_stdout, original_stderr>>
    /\ UNCHANGED routerVars
    /\ UNCHANGED <<inputVars, resource_items>>
    /\ UNCHANGED <<configVars, chatVars>>

\* execute_code called by several requests at once, one executor thread
\* each
NextExec ==
    \E w \in Workers :
        \/ \E s \in OverlapScripts : RunInExecutor(w, s)
        \/ SaveStdout(w)
        \/ SaveStderr(w)
        \/ RedirectStdout(w)
        \/ RedirectStderr(w)
        \/ ExecStatement(w)
        \/ CaptureStdout(w)
        \/ CaptureStderr(w)
        \/ ExceptClause(w)
        \/ RestoreStdout(w)
        \/ RestoreStderr(w)

SpecExec == InitBus /\ [][NextExec]_vars

\* calls of a caller who passes, as chat_history, the transcript of the
\* session as it is stored when the call is made
RaceArgs ==
    {[text |-> t, chat_history |-> transcripts[s].conversations, user_profile |-> "valid",
      channel |-> None, session_id |-> s, image_data |-> "none", context |-> "member"] :
        t \in Texts, s \in SessionIds}

NextRace ==
    \E c \in Calls :
        \/ \E a \in RaceArgs : ChatEnter(c, a)
        \/ Handle(c)
        \/ SaveChatHistory(c)
        \/ WriteChatHistory(c)

SpecRace == InitBus /\ [][NextRace]_vars

\* execute_code called directly by the coroutine
CalledInline(w) == TRUE

\* whether the execute_code call of thread w runs on the thread of the
\* event loop: run_in_executor(None, ...) runs it on a thread of the
\* default executor
OnLoopThread(w) == FALSE

\* the thread of the event loop is not inside a synchronous call, so the
\* loop can resume a coroutine
LoopRuns == \A w \in Workers : OnLoopThread(w) => (xpc[w] = "idle" \/ Finished(w))

\* the event loop resumes chat call c: the step the call is suspended at
LoopStep(c) ==
    /\ LoopRuns
    /\ \/ \E a \in RaceArgs : ChatEnter(c, a)
       \/ Handle(c)
       \/ SaveChatHistory(c)
       \/ WriteChatHistory(c)

\* the script of the requests that use the executor: one that writes
\* nothing
OffloadScripts == {s \in Scripts : s.compiles /\ s.body = <<>>}

\* execute_code on thread w from its first line to its return, for a
\* script that writes nothing and with no other call redirecting the
\* streams meanwhile (the steps of the redirection are those of SpecExec):
\* the call returns two empty texts and the streams are as they were
ExecuteCode(w) ==
    /\ xpc[w] = "l49"
    /\ script[w] \in OffloadScripts
    /\ xpc' = [xpc EXCEPT ![w] = "returned"]
    /\ retval' = [retval EXCEPT ![w] = TryResult(<<>>, <<>>)]
    /\ UNCHANGED <<sys_stdout, sys_stderr, contents, script, ip, original_stdout,
                   original_stderr, stdout_output, stderr_output, pending>>
    /\ UNCHANGED <<routerVars, queue>>
    /\ UNCHANGED <<inputVars, resource_items>>
    /\ UNCHANGED <<configVars, chatVars>>

\* a chat call on the event loop while the scripts of other requests are
\* run by the executor, each execute_code call taken as one step
NextOffload ==
    \/ LoopStep(1)
    \/ \E s \in OffloadScripts : Enqueue(s)
    \/ \E w \in Workers :
        \/ \E s \in OffloadScripts : RunInExecutor(w, s)
        \/ TakeQueued(w)
        \/ ExecuteCode(w)

SpecOffload == InitBus /\ [][NextOffload]_vars

(***************************************************************************)
(* The claims.                                                             *)
(***************************************************************************)
Faulted(call) == call.outcome # "ok"
Min(a, b) == IF a < b THEN a ELSE b

\* C1: the classifier is invoked at most twice per request; a second
\* invocation happens only after the first one faulted, with the same inputs
\* and the same offered types; when the second one faults too, the fault
\* leaves respond_to_user: no third attempt, no response, nothing else done.
C1_ClassifierRetriedOnce ==
    /\ Len(aasks) <= 2
    /\ Len(aasks) = 2 =>
          /\ Faulted(aasks[1])
          /\ aasks[2].inputs = aasks[1].inputs
          /\ aasks[2].variants = aasks[1].variants
          /\ Faulted(aasks[2]) =>
                /\ pc = "raised"
                /\ fault.origin = "classifier"
                /\ fault.type = aasks[2].outcome
                /\ response.kind = "none"
                /\ req.type = "none"
                /\ searches = <<>> /\ synth_calls = <<>> /\ future = 0

\* C1 witness: both classifier calls faulted and the fault was propagated.
C1_Witness ==
    /\ Len(aasks) = 2
    /\ Faulted(aasks[1]) /\ Faulted(aasks[2])
    /\ pc = "raised"

\* the table of the claim C2: the offered types as a function of the channel
ClaimedVariants(ci) ==
    IF ci = LEARN THEN {LearnResponse}
    ELSE IF ci = None \/ ci = BIOIMAGE_IO
        THEN {DirectResponse, DocumentRetrievalInput, ModelZooInfoScript, LearnResponse}
    ELSE {DirectResponse, DocumentRetrievalInput}

\* C2 as stated: the types offered to the classifier are a function of the
\* channel selection alone (learn: LearnResponse only; no channel or
\* bioimage.io: all four; any other channel: DirectResponse and
\* DocumentRetrievalInput), and the type dispatched on is one of them.
C2_VariantsByChannelAlone ==
    /\ \A i \in 1..Len(aasks) : aasks[i].variants = ClaimedVariants(channel_info)
    /\ req.type # "none" => req.type \in ClaimedVariants(channel_info)

\* C2 amended: for a request without image data the offered types are those
\* of the table; a request with image data on a channel other than learn is
\* offered the image task only; the type dispatched on is one of the offered.
C2_VariantsByChannelAndImage ==
    LET offered == IF channel_info # LEARN /\ image_data # "none"
                   THEN {CellposeTask}
                   ELSE ClaimedVariants(channel_info)
    IN /\ \A i \in 1..Len(aasks) : aasks[i].variants = offered
       /\ req.type # "none" =>
             /\ aasks # <<>>
             /\ req.type \in offered

\* C2 witness: a request on a named channel other than bioimage.io, without
\* image data, was classified as a retrieval.
C2_Witness ==
    /\ channel_info \in RegisteredSet(num_channels) \ {BIOIMAGE_IO}
    /\ image_data = "none"
    /\ req.type = DocumentRetrievalInput
    /\ aasks[Len(aasks)].variants = {DirectResponse, DocumentRetrievalInput}

\* the passages the searches of this request returned, each tagged with its
\* channel, its rank in the store's answer and the channel's base URL
Candidates ==
    UNION {{[doc |-> <<searches[i].channel[2], r>>,
             score |-> searches[i].hits[r],
             base_url |-> BaseUrl(searches[i].channel)] : r \in 1..Len(searches[i].hits)}
           : i \in 1..Len(searches)}
\* the search that returned passage d
SearchOf(d) == CHOOSE i \in 1..Len(searches) : searches[i].channel[2] = d.doc[1]
\* d1 was obtained before d2: an earlier channel, or the same channel and a
\* better rank
Before(d1, d2) ==
    \/ SearchOf(d1) < SearchOf(d2)
    \/ SearchOf(d1) = SearchOf(d2) /\ d1.doc[2] < d2.doc[2]
Range(f) == {f[i] : i \in DOMAIN f}
\* the synthesizer was called for a retrieval over "all" / over one channel
AllAtSynth ==
    /\ req.type = DocumentRetrievalInput
    /\ req.channel_id = ALL
    /\ synth_calls # <<>>
SingleAtSynth ==
    /\ req.type = DocumentRetrievalInput
    /\ req.channel_id \in RegisteredSet(num_channels)
    /\ synth_calls # <<>>
\* the ranked set passed to the synthesizer
Ranked == synth_calls[1].relevant_context

\* C3: in the "all" path every registered channel was searched with k=2, and
\* the ranked set passed to the synthesizer has min(3, total hits) passages,
\* in descending score order, all of them distinct passages of the union of
\* the channels' results, and no passage left out scores higher than one kept.
C3_AllMergeTopThree ==
    AllAtSynth =>
        /\ Len(searches) = num_channels
        /\ \A i \in 1..Len(searches) :
              /\ searches[i].channel = Channel(i)
              /\ searches[i].k = 2
        /\ Len(synth_calls) = 1
        /\ Len(Ranked) = Min(3, Cardinality(Candidates))
        /\ \A i, j \in 1..Len(Ranked) : i < j => Ranked[i].score >= Ranked[j].score
        /\ \A i, j \in 1..Len(Ranked) : i # j => Ranked[i] # Ranked[j]
        /\ Range(Ranked) \subseteq Candidates
        /\ \A u \in Candidates \ Range(Ranked) :
              \A i \in 1..Len(Ranked) : u.score <= Ranked[i].score

\* C3 witness: every channel returned two hits, three passages were kept and
\* a passage scoring lower than all of them was left out.
C3_Witness ==
    /\ AllAtSynth
    /\ num_channels > 1
    /\ Cardinality(Candidates) = 2 * num_channels
    /\ Len(Ranked) = 3
    /\ \E u \in Candidates \ Range(Ranked) : u.score < Ranked[3].score

\* C4: in the single-channel path exactly one search was made, of the named
\* channel with k=3; the ranked set has at most 3 passages, which are the
\* hits of that search in the store's order, each with the channel's base
\* URL; the synthesizer input carries the collection's format, whereas the
\* input of the "all" path carries none.
C4_SingleChannelRetrieval ==
    /\ (req.type = DocumentRetrievalInput /\ req.channel_id # ALL) =>
          /\ Len(searches) <= 1
          /\ \A i \in 1..Len(searches) :
                searches[i].channel = req.channel_id /\ searches[i].k = 3
    /\ SingleAtSynth =>
          /\ Len(searches) = 1
          /\ searches[1].channel = req.channel_id
          /\ searches[1].k = 3
          /\ Len(synth_calls) = 1
          /\ Len(Ranked) <= 3
          /\ Len(Ranked) = Len(searches[1].hits)
          /\ \A r \in 1..Len(Ranked) :
                /\ Ranked[r].doc = <<req.channel_id[2], r>>
                /\ Ranked[r].score = searches[1].hits[r]
                /\ Ranked[r].base_url = BaseUrl(req.channel_id)
          /\ synth_calls[1].format = Format(req.channel_id)
    /\ AllAtSynth => synth_calls[1].format = None

\* C4 witness: a single-channel retrieval reached the synthesizer with hits
\* the store did not return in descending score order.
C4_Witness ==
    /\ SingleAtSynth
    /\ Len(Ranked) = 3
    /\ Ranked[1].score < Ranked[2].score

\* C5: in the "all" path passages of equal score are ranked in the order in
\* which they were obtained (channel in registry order, then the store's
\* rank), and of several passages of equal score the ones obtained first are
\* the ones kept.
C5_StableTieBreak ==
    AllAtSynth =>
        /\ \A i, j \in 1..Len(Ranked) :
              (i < j /\ Ranked[i].score = Ranked[j].score) => Before(Ranked[i], Ranked[j])
        /\ \A u \in Candidates \ Range(Ranked) :
              \A i \in 1..Len(Ranked) :
                 Ranked[i].score = u.score => Before(Ranked[i], u)

\* C5 witness: two kept passages have the same score and a passage of that
\* score was cut.
C5_Witness ==
    /\ AllAtSynth
    /\ Len(Ranked) = 3
    /\ Ranked[2].score = Ranked[3].score
    /\ \E u \in Candidates \ Range(Ranked) : u.score = Ranked[3].score

\* C6: in the "all" path a fault of one channel's search does not abort the
\* request: no search fault leaves respond_to_user.
C6_ChannelFaultIsolated ==
    (/\ req.type = DocumentRetrievalInput
     /\ req.channel_id = ALL
     /\ \E i \in 1..Len(searches) : Faulted(searches[i]))
    => ~(pc = "raised" /\ fault.origin = "docs_store")

\* the execution of script s faults: it does not compile, or it reaches a
\* raising statement
ScriptFaults(s) ==
    \/ ~s.compiles
    \/ \E i \in 1..Len(s.body) : s.body[i] \in RaiseStatements
\* the texts the statements of kind `kinds` of a script write, in order
TextsWritten(s, kinds) ==
    LET at == {i \in 1..Len(s.body) : s.body[i] \in kinds}
        bound(i) == IF \E j \in 1..(i - 1) : s.body[j] = "clear" THEN <<>> ELSE model_info
        texts[i \in 0..Len(s.body)] ==
            IF i = 0 THEN <<>>
            ELSE IF i \in at THEN Append(texts[i - 1], Written(s.body[i], bound(i)))
            ELSE texts[i - 1]
    IN texts[Len(s.body)]

\* C7: execute_code never propagates a fault to its caller, whatever the
\* script raises.
C7_ExecuteCodeNeverRaises ==
    \A w \in Workers : xpc[w] # "raised"

\* C8: when the script faults, execute_code returns an empty stdout and a
\* non-empty stderr, also when the fault has an empty message.
C8_FaultGivesNonEmptyStderr ==
    \A w \in Workers :
        (xpc[w] = "returned" /\ ScriptFaults(script[w])) =>
            /\ retval[w].stdout = <<>>
            /\ retval[w].stderr # <<>>

\* C9: when the script runs to completion without a fault, the stdout
\* returned is exactly what its statements wrote to standard output, in
\* order, and the stderr returned exactly what they wrote to standard error,
\* whatever `resources` holds.
C9_CompletedScriptOutput ==
    \A w \in Workers :
        (xpc[w] = "returned" /\ ~ScriptFaults(script[w])) =>
            /\ retval[w].kind = "result"
            /\ retval[w].stdout = TextsWritten(script[w], PrintStatements)
            /\ retval[w].stderr = TextsWritten(script[w], {"eprint"})

\* C9 witness: a script that only prints returned that text and an empty
\* stderr, with a non-empty dataset bound.
C9_Witness ==
    \E w \in Workers :
        /\ xpc[w] = "returned"
        /\ script[w] = [compiles |-> TRUE, body |-> <<"print_a">>]
        /\ resource_items # <<>>
        /\ retval[w].stdout = <<"a\n">>
        /\ retval[w].stderr = <<>>

\* C10: after an execute_code call has ended, by returning or by raising,
\* sys.stdout and sys.stderr are the streams that were installed before the
\* call (the process streams); no capture buffer is left installed.
C10_StreamsRestored ==
    \A w \in Workers :
        Finished(w) =>
            /\ sys_stdout = REAL_STDOUT
            /\ sys_stderr = REAL_STDERR

\* C10 witness: a call ended by raising the script's SystemExit after the
\* script had written to the capture buffer.
C10_Witness ==
    \E w \in Workers :
        /\ xpc[w] = "raised"
        /\ contents[StdoutBuffer(w)] # <<>>
        /\ sys_stdout = REAL_STDOUT
        /\ sys_stderr = REAL_STDERR

\* C16: a fault raised while the image task chosen by the classifier is
\* carried out (reading the image, guessing its axes, running the remote
\* segmentation) does not leave respond_to_user: the request still ends with
\* a text response.
C16_ImageFaultContained ==
    req.type = CellposeTask =>
        /\ pc # "raised"
        /\ pc = "done" => response.kind = "text"

\* C18: when the classifier answers with a DirectResponse or a
\* LearnResponse, respond_to_user returns exactly the classifier's text, and
\* the request searched no store, ran no script and never called the
\* synthesizer.
C18_DirectTextUnchanged ==
    req.type \in {DirectResponse, LearnResponse} =>
        /\ pc = "done"
        /\ response = [kind |-> "text", text |-> req.response]
        /\ fault = NoFault
        /\ searches = <<>> /\ docs_with_score = <<>>
        /\ synth_calls = <<>>
        /\ future = 0
        /\ \A w \in Workers : xpc[w] = "idle"

\* C18 witness: a DirectResponse with the text "t2" was returned, after a
\* first classifier call that faulted.
C18_Witness ==
    /\ req.type = DirectResponse
    /\ req.response = "t2"
    /\ Len(aasks) = 2
    /\ pc = "done"
    /\ response.text = "t2"

\* the script of this request was run and faulted
ScriptRequestFaulted ==
    /\ req.type = ModelZooInfoScript
    /\ future # 0
    /\ Finished(future)
    /\ ScriptFaults(script[future])

\* C19: a fault inside the generated script never aborts the request: once
\* the faulting script has ended the request is not ended by the fault;
\* the synthesizer is called exactly once, with the stdout execute_code
\* captured, the fault text as stderr and the original request; the
\* response returned carries the script source and the raw result.
C19_ScriptFaultContained ==
    ScriptRequestFaulted =>
        /\ ~(pc = "raised" /\ fault.origin = "execute_code")
        /\ pc # "await_exec" =>
              /\ Len(synth_calls) = 1
              /\ synth_calls[1].type = "ModelZooInfoScriptResults"
              /\ synth_calls[1].stdout = retval[future].stdout
              /\ synth_calls[1].stderr = retval[future].stderr
              /\ synth_calls[1].stderr # <<>>
              /\ synth_calls[1].request = "request"
        /\ pc = "done" =>
              /\ response.kind = "script"
              /\ response.script = req.script
              /\ response.result = retval[future]

\* the channels whose search has been issued: completed, or in flight
Issued == {searches[i].channel : i \in 1..Len(searches)} \cup InFlight
\* the request is in the "all" path
InAllPath == req.type = DocumentRetrievalInput /\ req.channel_id = ALL

Ended(c) == cpc[c] \in {"returned", "raised", "reported", "pong"}
\* what chat() returns: `return response`
ChatReturns(c) == chat_response[c]
\* h is a proper prefix of g
IsStrictPrefix(h, g) == Len(h) < Len(g) /\ SubSeq(g, 1, Len(h)) = h

\* C11: with several chat calls in flight on the one event bus, the status
\* callback of a call for session S is given only stream events whose
\* session id is S, whatever the order of the subscriptions and of the
\* publishes.
C11_OnlyOwnSessionForwarded ==
    \A l \in Calls : \A message \in forwarded[l] :
        message.kind = "stream" => message.session = session_id[l]

\* C11 witness: two calls for different sessions are both subscribed and
\* being handled, a function_call event was published for each, and each
\* status callback was given exactly the event of its own session.
C11_Witness ==
    \E l, m \in Calls :
        /\ l # m
        /\ {l, m} \subseteq listeners
        /\ cpc[l] = "handle" /\ cpc[m] = "handle"
        /\ session_id[l] # session_id[m]
        /\ forwarded[l] = {[kind |-> "stream", type |-> "function_call", session |-> session_id[l]]}
        /\ forwarded[m] = {[kind |-> "stream", type |-> "function_call", session |-> session_id[m]]}

\* C12: once a chat call has registered its stream listener, the listener is
\* no longer registered when the call has ended, on whatever path it ended.
C12_ListenerReleased ==
    \A c \in Calls : Ended(c) => c \notin listeners

\* the classifier raised an exception in both of its calls
ClassifierFaultedTwice ==
    /\ Len(aasks) = 2
    /\ aasks[1].outcome = "Exception"
    /\ aasks[2].outcome = "Exception"

\* C13: when the classifier faults twice in a row, the chat call ends by
\* raising the fault and returns no response; no store is searched, no
\* script is run and the synthesizer is not called; the caller's chat
\* history is the one that was passed; no transcript file is written; and
\* the stream listener of the call is no longer registered.
C13_DoubleClassifierFault ==
    ClassifierFaultedTwice =>
        /\ searches = <<>> /\ synth_calls = <<>> /\ future = 0
        /\ \A w \in Workers : xpc[w] = "idle"
        /\ cpc[1] \in {"handle", "raised"}
        /\ chat_response[1] = NoResult
        /\ chat_history[1] = PriorHistory
        /\ \A s \in AllSessions : transcripts[s] = NoFile
        /\ cpc[1] = "raised" =>
              /\ chat_fault[1] = "Exception"
              /\ 1 \notin listeners

\* C13 witness: the call has ended with the second fault of the classifier,
\* after its listener had been registered.
C13_Witness ==
    /\ ClassifierFaultedTwice
    /\ cpc[1] = "raised"
    /\ session_id[1] = Token(1)
    /\ listeners = {}

\* C14: the transcript of a session only grows: a call that runs with no
\* other call in flight writes back a transcript that holds everything the
\* session's file held, followed by the new exchange.
C14_TranscriptAppendOnly ==
    \A c \in Calls :
        (/\ cpc[c] = "saving"
         /\ \A d \in Calls \ {c} : cpc[d] = "idle" \/ Ended(d))
        => IsStrictPrefix(transcripts[session_id[c]].conversations, chat_history_json[c])

\* C15: when the handler has produced a response, the chat call returns it,
\* also when building or writing the transcript faults.
C15_ResponseSurvivesSaveFault ==
    \A c \in Calls :
        (Ended(c) /\ chat_response[c].kind # "none") =>
            /\ cpc[c] = "returned"
            /\ ChatReturns(c) = chat_response[c]

\* C17: every branch of respond_to_user adds at least one entry to the step
\* trace of the request, and chat() returns that trace with the response.
C17_StepTraceReturned ==
    cpc[1] = "returned" =>
        /\ "steps" \in DOMAIN ChatReturns(1)
        /\ Len(ChatReturns(1).steps) >= 1

\* the index of the statement of s that faults, and the fault's text
FirstFault(s) ==
    CHOOSE i \in 1..Len(s.body) :
        /\ s.body[i] \in RaiseStatements
        /\ \A j \in 1..(i - 1) : s.body[j] \notin RaiseStatements
FaultText(s) ==
    IF ~s.compiles THEN StrOfFault("syntax") ELSE StrOfFault(s.body[FirstFault(s)])
\* the texts the statements of kind `kinds` write before the fault
WrittenBeforeFault(s, kinds) ==
    IF ~s.compiles THEN <<>>
    ELSE TextsWritten([s EXCEPT !.body = SubSeq(s.body, 1, FirstFault(s) - 1)], kinds)

\* C21 as stated: when a script faults after writing, the stdout returned is
\* exactly what the script wrote before the fault, and the stderr returned
\* is the text of the fault.
C21_OutputBeforeFaultKept ==
    \A w \in Workers :
        (xpc[w] = "returned" /\ ScriptFaults(script[w])) =>
            /\ retval[w].stdout = WrittenBeforeFault(script[w], PrintStatements)
            /\ retval[w].stderr = FaultText(script[w])

\* C21 as the code has it: when a script faults with an exception that
\* execute_code catches, the stdout returned is empty whatever the script
\* wrote before the fault, and the stderr returned is str(e) alone; what the
\* script wrote stays in the capture buffers, which are dropped.
C21_OutputBeforeFaultDropped ==
    \A w \in Workers :
        (xpc[w] = "returned" /\ ScriptFaults(script[w])) =>
            /\ retval[w].stdout = <<>>
            /\ retval[w].stderr = FaultText(script[w])
            /\ contents[StdoutBuffer(w)] = WrittenBeforeFault(script[w], PrintStatements)
            /\ contents[StderrBuffer(w)] = WrittenBeforeFault(script[w], {"eprint"})

\* C21 witness: a script printed, then raised an exception with a message;
\* the call returned an empty stdout and the message as stderr.
C21_Witness ==
    \E w \in Workers :
        /\ xpc[w] = "returned"
        /\ script[w].body = <<"print_a", "raise_boom">>
        /\ contents[StdoutBuffer(w)] = <<"a\n">>
        /\ retval[w].stdout = <<>>
        /\ retval[w].stderr = <<"boom">>

\* C22: the dataset bound to scripts is fixed: whatever scripts have run,
\* the list bound to `resources` for the next execution is the collection
\* that was loaded.
C22_DatasetFixed == resource_items = model_info

\* C25: a search that returns fewer hits than were asked for completes: the
\* request does not fault at the passages it was given.
C25_FewerHitsCompletes ==
    \A i \in 1..Len(searches) :
        (searches[i].outcome = "ok" /\ Len(searches[i].hits) < searches[i].k) =>
            ~(pc = "raised" /\ fault.origin = "print")

\* C26: when the request selects a named channel other than the default
\* one, every search is a search of that channel's store, whatever channel
\* id the classifier returned.
C26_OnlySelectedChannelSearched ==
    (channel_info \in RegisteredSet(num_channels) \ {BIOIMAGE_IO}) =>
        \A i \in 1..Len(searches) : searches[i].channel = channel_info

\* the service requires login and has a list of authorized users
LoginEnforced == login_required /\ authorized_emails # NoEmails
\* call c was made by a caller who is not on the list
Unauthorized(c) == cpc[c] # "idle" /\ context[c] \notin AuthorizedUsers

\* C29: when login is required and a list of authorized users is given, a
\* chat, report or ping call by a caller who is not on the list (with a
\* user that is not listed, with no user, or with no context) is rejected
\* by the permission check: no listener is registered, the handler is not
\* run, no transcript and no report is written.
C29_UnauthorizedCallRejected ==
    LoginEnforced =>
        \A c \in Calls :
            Unauthorized(c) =>
                /\ cpc[c] = "raised"
                /\ chat_fault[c] = "AssertionError"
                /\ c \notin listeners
                /\ reports[c] = "none"

\* C24: transcript writes of one session are not serialized and do not
\* merge: when a call's write completes, the file starts with that call's
\* own snapshot of the conversation, whatever another call has written to
\* the file in the meantime (the last writer wins).
C24_LastWriterWins ==
    [][\A c \in Calls :
          (cpc[c] = "writing" /\ cpc'[c] = "returned") =>
              /\ Len(transcripts'[session_id[c]].conversations) >= Len(chat_history_json[c])
              /\ SubSeq(transcripts'[session_id[c]].conversations, 1,
                        Len(chat_history_json[c])) = chat_history_json[c]]_vars

\* C24 witness: two calls of one session, each given the stored transcript
\* (none) as chat_history, were in flight at once; both returned a response
\* and the transcript holds the exchange of the second call alone.
C24_Witness ==
    /\ NumCalls >= 2
    /\ cpc[1] = "returned" /\ cpc[2] = "returned"
    /\ session_id[1] = session_id[2]
    /\ text[1] = "t1" /\ text[2] = "t2"
    /\ chat_response[1].kind = "text" /\ chat_response[2].kind = "text"
    /\ Len(chat_history[1]) = 2 /\ Len(chat_history[2]) = 2
    /\ transcripts[session_id[1]].conversations = chat_history_json[2]
    /\ Entry("user", "t1") \notin Range(transcripts[session_id[1]].conversations)

\* C27: with two or more execute_code calls that overlapped, once all of
\* them have ended sys.stdout and sys.stderr are the streams of the process
\* again.
C27_StreamsRestoredAfterOverlap ==
    (\A w \in Workers : Finished(w)) =>
        /\ sys_stdout = REAL_STDOUT
        /\ sys_stderr = REAL_STDERR

\* what execute_code returns for a script when no other call interferes
OwnResult(s) ==
    IF ScriptFaults(s)
    THEN [kind |-> "result", stdout |-> <<>>, stderr |-> FaultText(s)]
    ELSE [kind |-> "result", stdout |-> TextsWritten(s, PrintStatements),
          stderr |-> TextsWritten(s, {"eprint"})]

\* C28: with execute_code calls that overlap, each call that returns
\* returns the result of its own script: its own output, nothing of
\* another script's, and no fault its script did not raise.
C28_OwnResultUnderOverlap ==
    \A w \in Workers : xpc[w] = "returned" => retval[w] = OwnResult(script[w])

Running(w) == xpc[w] # "idle" /\ ~Finished(w)
\* chat call c is suspended at a step of the event loop
Suspended(c) == cpc[c] \in {"idle", "handle", "saving", "writing"}

====
